---- MODULE Spec2Model ----
(***************************************************************************)
(* npts::ShaderSpecialization<Ts...> (src/vulkan/ShaderSpecialization.h).  *)
(*                                                                         *)
(* One translation unit instantiates the class template for a type list    *)
(* Ts and uses its default constructor and get<N>/set<N> for every index.  *)
(* The build either accepts that (and instances then live at NumInst       *)
(* storage locations) or rejects it with diagnostics.                      *)
(***************************************************************************)
EXTENDS Integers, Sequences

\* ---------------------------------------------------------------- bounds
MaxTypes == 3
NumInst == 2
MaxByte == 1

\* ------------------------------------------------------- the type system
\* Types a list may name.  "ptr" is an object pointer (int*), "struct" an
\* aggregate (struct S { int a; }).
Types == {"bool", "int32", "float", "ptr", "struct"}

\* sizeof(T), LP64.
sizeof(T) ==
    CASE T = "bool" -> 1
      [] T = "int32" -> 4
      [] T = "float" -> 4
      [] T = "ptr" -> 8
      [] T = "struct" -> 4

\* std::is_scalar<T>::value: arithmetic, enumeration, pointer,
\* pointer-to-member and nullptr_t types.
is_scalar(T) == T \in {"bool", "int32", "float", "ptr"}

\* Result of a constant expression that names no function (the call is
\* ill-formed) or whose static_assert fails.
IllFormed == -1

TypeLists == UNION {[1..n -> Types] : n \in 0..MaxTypes}

ByteVals == 0..MaxByte

\* Byte strings of length n used as inputs and as indeterminate contents:
\* one byte value repeated.
Bytes(n) == {[b \in 1..n |-> x] : x \in ByteVals}

\* Object representations of the values of type T passed to set.
Values(T) == Bytes(sizeof(T))

VARIABLES
    Ts,      \* the type list of the instantiation
    build,   \* "source", then "accepted" or "rejected"
    diag,    \* diagnostics of the build
    layout,  \* the constants the build evaluated: size, offset_of<N>, the table
    inst,    \* the object at each storage location
    made,    \* history: the constructor that made each object, and its argument
    last     \* history: the last member function called

vars == <<Ts, build, diag, layout, inst, made, last>>

\* sizeof...(Ts)
count == Len(Ts)

\* std::tuple_element<N, std::tuple<Ts...>>::type
type(N) == Ts[N + 1]

\* Mutant of size_helper: the sizes are summed without the static_assert.
RECURSIVE size_helper_NoAssert(_)
size_helper_NoAssert(pack) ==
    IF Len(pack) = 0 THEN IllFormed
    ELSE IF Len(pack) = 1 THEN sizeof(pack[1])
         ELSE sizeof(pack[1]) + size_helper_NoAssert(Tail(pack))

\* size_helper<Ts...>(): the one-type overload asserts T, the other asserts
\* T1 and recurses on the tail; no overload takes an empty pack.
RECURSIVE size_helper(_)
size_helper(pack) ==
    IF Len(pack) = 0 THEN IllFormed
    ELSE IF Len(pack) = 1
         THEN IF is_scalar(pack[1]) THEN sizeof(pack[1]) ELSE IllFormed
         ELSE LET rest == size_helper(Tail(pack))
              IN  IF is_scalar(pack[1]) /\ rest # IllFormed
                  THEN sizeof(pack[1]) + rest
                  ELSE IllFormed

\* Number of template parameters of offset_of_helper: Index, Max, Offset.
offset_of_helper_params == 3

\* offset_of_helper<args...>(): with all three arguments given it returns
\* Offset when Index = Max and otherwise calls
\* offset_of_helper<Index + 1, Offset + sizeof(type<Index>)>, a call that
\* gives two arguments.
RECURSIVE offset_of_helper(_)
offset_of_helper(args) ==
    IF Len(args) # offset_of_helper_params THEN IllFormed
    ELSE LET Index == args[1]
             Max == args[2]
             Offset == args[3]
         IN  IF Index = Max THEN Offset
             ELSE offset_of_helper(<<Index + 1, Offset + sizeof(type(Index))>>)

\* offset_of<N>
offset_of(N) == offset_of_helper(<<0, N, 0>>)

\* static constexpr size_t size
size == size_helper(Ts)

\* ------------------------------------------------------------ the objects
Inst == 1..NumInst

\* A value-initialised vk::SpecializationMapEntry / vk::SpecializationInfo.
\* Pointers are storage locations: k is the address of the members of the
\* object at location k, 0 is nullptr.
NullEntry == [constantID |-> 0, offset |-> 0, size |-> 0]
NullInfo == [mapEntryCount |-> 0, pMapEntries |-> 0, dataSize |-> 0, pData |-> 0]

\* Storage that holds no object.
NoObject == [live |-> FALSE, m_info |-> NullInfo, m_entries |-> <<>>, m_data |-> <<>>]

\* construct_helper<Index>(): fills m_entries[Index..count-1].
RECURSIVE construct_helper(_, _)
construct_helper(Index, m_entries) ==
    IF Index = count THEN m_entries
    ELSE construct_helper(Index + 1,
             [m_entries EXCEPT ![Index + 1] =
                 [constantID |-> Index,
                  offset |-> offset_of(Index),
                  size |-> sizeof(type(Index))]])

\* get<N>() on a buffer.
get(m_data, N) ==
    [b \in 1..sizeof(type(N)) |-> m_data[offset_of(N) + b]]

\* set<N>(value) on a buffer: the buffer afterwards.
set(m_data, N, value) ==
    [b \in DOMAIN m_data |->
        IF b > offset_of(N) /\ b <= offset_of(N) + sizeof(type(N))
        THEN value[b - offset_of(N)]
        ELSE m_data[b]]

\* info(): the descriptor, and what a reader of it sees through its pointers.
info(k) == inst[k].m_info

\* Contents of an array of uint8_t whose elements were never written.
Indeterminate == Bytes(size)

Op(op, dst, src, N, value) ==
    [op |-> op, dst |-> dst, src |-> src, N |-> N, value |-> value]

\* ---------------------------------------------------------------- build
Init ==
    /\ Ts \in TypeLists
    /\ build = "source"
    /\ diag = {}
    /\ layout = [size |-> 0, offset_of |-> <<>>, entries |-> <<>>]
    /\ inst = [k \in Inst |-> NoObject]
    /\ made = [k \in Inst |-> [by |-> "none", from |-> 0]]
    /\ last = Op("none", 0, 0, 0, <<>>)

\* Diagnostics of instantiating the class, its default constructor and
\* get<N>/set<N> for every N < count.
Diagnostics ==
    (IF count > 0 /\ size = IllFormed THEN {"static_assert"} ELSE {})
    \cup
    (IF count = 0 \/ \E N \in 0..(count - 1) : offset_of(N) = IllFormed
     THEN {"no_matching_function"} ELSE {})

Instantiate ==
    /\ build = "source"
    /\ diag' = Diagnostics
    /\ build' = IF Diagnostics = {} THEN "accepted" ELSE "rejected"
    /\ layout' = [size |-> size,
                  offset_of |-> [i \in 1..count |-> offset_of(i - 1)],
                  entries |-> construct_helper(0, [i \in 1..count |-> NullEntry])]
    /\ UNCHANGED <<Ts, inst, made, last>>

\* ------------------------------------------------------------- operations
\* ShaderSpecialization()
DefaultConstruct ==
    \E k \in Inst, garbage \in Indeterminate :
        /\ build = "accepted"
        /\ ~inst[k].live
        /\ inst' = [inst EXCEPT ![k] =
               [live |-> TRUE,
                m_entries |-> construct_helper(0, [i \in 1..count |-> NullEntry]),
                m_data |-> garbage,
                m_info |-> [mapEntryCount |-> count, pMapEntries |-> k,
                            dataSize |-> size, pData |-> k]]]
        /\ made' = [made EXCEPT ![k] = [by |-> "default", from |-> 0]]
        /\ last' = Op("default", k, 0, 0, <<>>)
        /\ UNCHANGED <<Ts, build, diag, layout>>

\* Mutant of MoveConstruct: m_info is taken over from other as it is.
MoveConstruct_KeepsInfo ==
    \E k \in Inst, other \in Inst :
        /\ build = "accepted"
        /\ ~inst[k].live
        /\ inst[other].live
        /\ inst' = [inst EXCEPT ![k] =
               [live |-> TRUE,
                m_entries |-> inst[other].m_entries,
                m_data |-> inst[other].m_data,
                m_info |-> inst[other].m_info]]
        /\ made' = [made EXCEPT ![k] = [by |-> "move", from |-> other]]
        /\ last' = Op("move", k, other, 0, <<>>)
        /\ UNCHANGED <<Ts, build, diag, layout>>

\* Mutant of MoveConstruct: m_data is not initialised from other.
MoveConstruct_DropsData ==
    \E k \in Inst, other \in Inst, garbage \in Indeterminate :
        /\ build = "accepted"
        /\ ~inst[k].live
        /\ inst[other].live
        /\ inst' = [inst EXCEPT ![k] =
               [live |-> TRUE,
                m_entries |-> inst[other].m_entries,
                m_data |-> garbage,
                m_info |-> [mapEntryCount |-> count, pMapEntries |-> k,
                            dataSize |-> size, pData |-> k]]]
        /\ made' = [made EXCEPT ![k] = [by |-> "move", from |-> other]]
        /\ last' = Op("move", k, other, 0, <<>>)
        /\ UNCHANGED <<Ts, build, diag, layout>>

\* ShaderSpecialization(ShaderSpecialization&& other)
MoveConstruct ==
    \E k \in Inst, other \in Inst :
        /\ build = "accepted"
        /\ ~inst[k].live
        /\ inst[other].live
        /\ inst' = [inst EXCEPT ![k] =
               [live |-> TRUE,
                m_entries |-> inst[other].m_entries,
                m_data |-> inst[other].m_data,
                m_info |-> [mapEntryCount |-> count, pMapEntries |-> k,
                            dataSize |-> size, pData |-> k]]]
        /\ made' = [made EXCEPT ![k] = [by |-> "move", from |-> other]]
        /\ last' = Op("move", k, other, 0, <<>>)
        /\ UNCHANGED <<Ts, build, diag, layout>>

\* Mutant of CopyConstruct: the member-wise copy, m_info included.
CopyConstruct_Memberwise ==
    \E k \in Inst, other \in Inst :
        /\ build = "accepted"
        /\ ~inst[k].live
        /\ inst[other].live
        /\ inst' = [inst EXCEPT ![k] = inst[other]]
        /\ made' = [made EXCEPT ![k] = [by |-> "copy", from |-> other]]
        /\ last' = Op("copy", k, other, 0, <<>>)
        /\ UNCHANGED <<Ts, build, diag, layout>>

\* ShaderSpecialization(const ShaderSpecialization& other)
CopyConstruct ==
    \E k \in Inst, other \in Inst :
        /\ build = "accepted"
        /\ ~inst[k].live
        /\ inst[other].live
        /\ inst' = [inst EXCEPT ![k] =
               [live |-> TRUE,
                m_entries |-> inst[other].m_entries,
                m_data |-> inst[other].m_data,
                m_info |-> [mapEntryCount |-> count, pMapEntries |-> k,
                            dataSize |-> size, pData |-> k]]]
        /\ made' = [made EXCEPT ![k] = [by |-> "copy", from |-> other]]
        /\ last' = Op("copy", k, other, 0, <<>>)
        /\ UNCHANGED <<Ts, build, diag, layout>>

\* Mutant of CopyAssign: the member-wise assignment, m_info included.
CopyAssign_Memberwise ==
    \E k \in Inst, other \in Inst :
        /\ build = "accepted"
        /\ inst[k].live
        /\ inst[other].live
        /\ inst' = IF k # other
                   THEN [inst EXCEPT ![k] = inst[other]]
                   ELSE inst
        /\ last' = Op("copy_assign", k, other, 0, <<>>)
        /\ UNCHANGED <<Ts, build, diag, layout, made>>

\* operator=(const ShaderSpecialization& other)
CopyAssign ==
    \E k \in Inst, other \in Inst :
        /\ build = "accepted"
        /\ inst[k].live
        /\ inst[other].live
        /\ inst' = IF k # other
                   THEN [inst EXCEPT ![k].m_data = inst[other].m_data]
                   ELSE inst
        /\ last' = Op("copy_assign", k, other, 0, <<>>)
        /\ UNCHANGED <<Ts, build, diag, layout, made>>

\* operator=(ShaderSpecialization&& other)
MoveAssign ==
    \E k \in Inst, other \in Inst :
        /\ build = "accepted"
        /\ inst[k].live
        /\ inst[other].live
        /\ inst' = IF k # other
                   THEN [inst EXCEPT ![k].m_data = inst[other].m_data]
                   ELSE inst
        /\ last' = Op("move_assign", k, other, 0, <<>>)
        /\ UNCHANGED <<Ts, build, diag, layout, made>>

\* set<N>(value)
Set ==
    \E k \in Inst, N \in 0..(count - 1) :
        \E value \in Values(type(N)) :
            /\ build = "accepted"
            /\ inst[k].live
            /\ inst' = [inst EXCEPT ![k].m_data = set(inst[k].m_data, N, value)]
            /\ last' = Op("set", k, 0, N, value)
            /\ UNCHANGED <<Ts, build, diag, layout, made>>

\* get<N>()
Get ==
    \E k \in Inst, N \in 0..(count - 1) :
        /\ build = "accepted"
        /\ inst[k].live
        /\ last' = Op("get", k, 0, N, get(inst[k].m_data, N))
        /\ UNCHANGED <<Ts, build, diag, layout, inst, made>>

\* ~ShaderSpecialization()
Destroy ==
    \E k \in Inst :
        /\ build = "accepted"
        /\ inst[k].live
        /\ inst' = [inst EXCEPT ![k] = NoObject]
        /\ made' = [made EXCEPT ![k] = [by |-> "none", from |-> 0]]
        /\ last' = Op("destroy", k, 0, 0, <<>>)
        /\ UNCHANGED <<Ts, build, diag, layout>>

Next ==
    \/ Instantiate
    \/ DefaultConstruct
    \/ MoveConstruct
    \/ CopyConstruct
    \/ CopyAssign
    \/ MoveAssign
    \/ Set
    \/ Get
    \/ Destroy

Spec == Init /\ [][Next]_vars

\* ================================================================ claims
\* The layout the documentation describes: offset(i) is the sum of the sizes
\* of the types before position i.
RECURSIVE PrefixSum(_)
PrefixSum(i) == IF i = 0 THEN 0 ELSE PrefixSum(i - 1) + sizeof(Ts[i])

ExpectedEntries ==
    [i \in 1..count |->
        [constantID |-> i - 1, offset |-> PrefixSum(i - 1), size |-> sizeof(Ts[i])]]

\* Integral, floating-point and boolean types.
Arithmetic == {"bool", "int32", "float"}

\* A non-empty list of arithmetic types, such as <int, int, float>, after
\* the build has processed it.
BuiltArithmeticList ==
    /\ build # "source"
    /\ count > 0
    /\ \A i \in 1..count : Ts[i] \in Arithmetic

Live == {k \in Inst : inst[k].live}

\* What a reader of info() of the object at k finds behind its two pointers.
ViewData(k) == inst[info(k).pData].m_data
ViewEntries(k) == inst[info(k).pMapEntries].m_entries

\* The same after a step.
ViewDataNext(k) == inst'[inst'[k].m_info.pData].m_data
ViewEntriesNext(k) == inst'[inst'[k].m_info.pMapEntries].m_entries

\* C1: the descriptor of every live instance points at that instance's own
\* entry table and own byte buffer.
C1_ViewAnchoredToSelf ==
    \A k \in Live : info(k).pMapEntries = k /\ info(k).pData = k

\* A copy- or move-constructed instance outlives the destruction of the
\* instance it was made from.
C1_Witness ==
    \E k \in Live :
        /\ made[k].by \in {"copy", "move"}
        /\ last.op = "destroy"
        /\ last.dst = made[k].from
        /\ info(k).pData = k

\* C2: for every arithmetic type list the table default construction builds,
\* and the table of every instance, is
\* entries[i] = {constant_id: i, offset: offset(i), size: size(Ti)}.
C2_EntryTable ==
    BuiltArithmeticList =>
        /\ layout.entries = ExpectedEntries
        /\ \A k \in Live : inst[k].m_entries = ExpectedEntries

\* C3: offset_of<0> = 0, offset_of<i+1> = offset_of<i> + sizeof(type<i>), and
\* size is the sum of all sizes.
C3_PrefixSums ==
    BuiltArithmeticList =>
        /\ layout.offset_of[1] = 0
        /\ \A i \in 1..(count - 1) :
               layout.offset_of[i + 1] = layout.offset_of[i] + sizeof(Ts[i])
        /\ layout.size = PrefixSum(count)

\* C4: for every valid index i of an arithmetic type list set<i> and get<i>
\* exist, and get<i>() after set<i>(v) returns v.
C4_SetGetRoundTrip ==
    BuiltArithmeticList =>
        /\ \A N \in 0..(count - 1) : layout.offset_of[N + 1] \in Nat
        /\ last.op = "set" =>
               get(inst[last.dst].m_data, last.N) = last.value

\* C5: the regions [offset(i), offset(i) + size(i)) of distinct indices lie
\* in the buffer and do not overlap, and set<i> changes no byte outside the
\* region of i.
C5_SetFrame ==
    [][BuiltArithmeticList' =>
        /\ \A i \in 1..count :
            /\ layout'.offset_of[i] >= 0
            /\ \A j \in 1..count :
                i < j => layout'.offset_of[i] + sizeof(Ts[i]) <= layout'.offset_of[j]
        /\ last'.op = "set" =>
            \A b \in DOMAIN inst[last'.dst].m_data :
                (b <= PrefixSum(last'.N) \/ b > PrefixSum(last'.N + 1))
                    => inst'[last'.dst].m_data[b] = inst[last'.dst].m_data[b]]_vars

\* C6: a copy-constructed instance starts with the source's bytes, and a set
\* on one instance changes nothing that get or the descriptor of another
\* instance shows.
C6_CopyIndependent ==
    [][/\ last'.op = "copy" =>
            /\ inst'[last'.dst].m_data = inst[last'.src].m_data
            /\ \A N \in 0..(count - 1) :
                get(inst'[last'.dst].m_data, N) = get(inst[last'.src].m_data, N)
       /\ last'.op = "set" =>
            \A j \in Live \ {last'.dst} :
                /\ \A N \in 0..(count - 1) :
                    get(inst'[j].m_data, N) = get(inst[j].m_data, N)
                /\ ViewDataNext(j) = ViewData(j)
                /\ ViewEntriesNext(j) = ViewEntries(j)]_vars

\* A set on a copy whose source is still alive has made the two differ.
C6_Witness ==
    /\ last.op = "set"
    /\ made[last.dst].by = "copy"
    /\ made[last.dst].from \in Live
    /\ inst[last.dst].m_data # inst[made[last.dst].from].m_data

\* C7: a move-constructed instance returns from get<i>() what the source
\* held before the move, and its descriptor exposes those bytes and the
\* source's table.
C7_MoveKeepsValues ==
    [][last'.op = "move" =>
        /\ \A N \in 0..(count - 1) :
            get(inst'[last'.dst].m_data, N) = get(inst[last'.src].m_data, N)
        /\ ViewDataNext(last'.dst) = inst[last'.src].m_data
        /\ ViewEntriesNext(last'.dst) = inst[last'.src].m_entries
        /\ inst'[last'.dst].m_info.mapEntryCount = info(last'.src).mapEntryCount
        /\ inst'[last'.dst].m_info.dataSize = info(last'.src).dataSize]_vars

\* An instance move-constructed from a source holding a non-zero value.
C7_Witness ==
    /\ last.op = "move"
    /\ \E b \in DOMAIN inst[last.dst].m_data : inst[last.dst].m_data[b] # 0
    /\ inst[last.dst].m_data = inst[last.src].m_data

\* C8: assignment replaces the destination's bytes by the source's and leaves
\* the destination's table and descriptor as they were; self-assignment
\* changes nothing.
C8_AssignOnlyBytes ==
    [][last'.op \in {"copy_assign", "move_assign"} =>
        /\ inst'[last'.dst].m_data = inst[last'.src].m_data
        /\ inst'[last'.dst].m_entries = inst[last'.dst].m_entries
        /\ inst'[last'.dst].m_info = inst[last'.dst].m_info
        /\ last'.dst = last'.src => inst' = inst]_vars

\* An assignment between two instances has happened.
C8_Witness ==
    /\ last.op \in {"copy_assign", "move_assign"}
    /\ last.dst # last.src
    /\ inst[last.dst].m_data = inst[last.src].m_data
    /\ info(last.dst).pData = last.dst

\* C9: right after default construction every byte of the buffer is zero.
C9_ZeroInitialised ==
    last.op = "default" =>
        \A b \in DOMAIN inst[last.dst].m_data : inst[last.dst].m_data[b] = 0

====
